---------------------------- MODULE Spec2Model ----------------------------
(***************************************************************************)
(* RabbitService (pkg/tcr/rabbitservice.go): the publish protocol with its *)
(* letter counter, the three fan-in loops, the shutdown monitor and the    *)
(* Shutdown operation, as one state machine.  The Publisher, the           *)
(* Consumers, the Connection Pool and the payload pipeline are             *)
(* collaborators: what they return is drawn nondeterministically.          *)
(***************************************************************************)
EXTENDS Integers, Sequences, FiniteSets, TLC

(***************************************************************************)
(* Bounds of the model.                                                    *)
(***************************************************************************)
\* Publish / PublishWithConfirmation calls issued in all, by all callers.
MaxCalls == 3

\* Errors the consumers and the Publisher report on their error sources, in all.
MaxSourceErrs == 2

\* Receipts the Publisher puts on its receipt source.
MaxReceipts == 2

\* Calls of Shutdown, one after another.
MaxShutdowns == 2

\* Goroutines of the application that call Publish / PublishWithConfirmation.
Callers == {"a", "b"}

\* The absent input (a nil interface{}) and the inputs a caller passes.
Nil == "nil"
Inputs == {Nil, "payload"}
ExchangeNames == {"", "orders"}
RoutingKeys == {"", "new"}

NoErr == "nil"
\* The two entry points word their validation error differently.
ErrValidation(confirm) ==
  IF confirm
    THEN "can't have a nil body or an empty exchangename with empty routing key"
    ELSE "can't have a nil input or an empty exchangename with empty routing key"

ValidationErrs == {ErrValidation(TRUE), ErrValidation(FALSE)}
ErrPipeline == "payload pipeline error"

VARIABLES
  letterCount,   \* rs.letterCount
  pubPc,         \* per caller: where it stands in Publish / PublishWithConfirmation
  pubArgs,       \* per caller: the arguments of its current (or last) call
  currentCount,  \* per caller: the local currentCount
  pipeErr,       \* per caller: what the payload pipeline returned in this call
  pubRet,        \* per caller: the error its last call returned
  pubCalls,      \* per caller: calls issued so far
  assignedIDs,   \* per caller: the LetterIDs its validated calls loaded, in order
  handed,        \* per caller: letters its current (or last) call gave the Publisher
  pipeCfg,       \* per caller: the encryption configuration its current (or
                 \* last) call gave the payload pipeline
  issuedAt       \* per caller: what rs.letterCount read when its running call
                 \* was issued

pubVars == <<letterCount, pubPc, pubArgs, currentCount, pipeErr, pubRet,
             pubCalls, assignedIDs, handed, pipeCfg, issuedAt>>

VARIABLES
  consumers,       \* rs.consumers: the names registered at construction
  customHandler,   \* whether NewRabbitService was given processPublishReceipts
  passphrase,      \* the passphrase NewRabbitService was given
  salt,            \* the salt NewRabbitService was given
  encryptionConfig,     \* rs.Config.EncryptionConfig: Enabled and Hashkey
  encryptionConfigured, \* rs.encryptionConfigured
  shutdown,        \* rs.shutdown
  shutdownSignal,  \* rs.shutdownSignal: values waiting in the buffered channel
  centralErr,      \* rs.centralErr: per pushing goroutine, what the application
                   \* received from it, in order
  monPc,           \* monitorForShutdown: "poll" or "done"
  cePc,            \* collectConsumerErrors: range, check, send, done
  ceTodo,          \* consumers the current range has not visited yet
  ceCur,           \* the consumer of the current iteration
  ceErr,           \* the error taken from it and not pushed yet
  pePc,            \* collectAutoPublisherErrors: check, send, done
  peErr,           \* the error taken and not pushed yet
  rcPc,            \* the receipt loop: check, send, requeue, done
  rcReceipt,       \* the receipt it took and has not finished with
  requeued,        \* letters given to rs.Publisher.QueueLetter, in order
  handlerLog,      \* receipts passed to the custom handler, in order
  sdPc,            \* Shutdown: idle, signal, stop, send, pool
  sdStopConsumers, \* its argument
  sdTodo,          \* consumers its range has not visited yet
  sdErr,           \* the StopConsuming error not pushed yet
  sdCalls,         \* calls of Shutdown so far
  stopCalls,       \* per consumer: StopConsuming calls of the running Shutdown
  stopErrs,        \* consumers whose StopConsuming failed in the running Shutdown
  sdPushed,        \* errors the running Shutdown has pushed on rs.centralErr
  sdSteps,         \* the calls the running Shutdown has made on its collaborators
  autoPublishing,  \* the Publisher's auto-publish loop runs
  poolShutdowns,   \* calls of rs.ConnectionPool.Shutdown
  consErrs,        \* per consumer: consumer.Errors(), the errors waiting
  consSent,        \* per consumer: errors it has put there so far
  pubErrs,         \* rs.Publisher.Errors(), the errors waiting
  pubSent,         \* errors the Publisher has put there so far
  receipts,        \* rs.Publisher.PublishReceipts(), the receipts waiting
  receiptsSent,    \* every receipt the Publisher has put there, in order
  gcName,          \* GetConsumer: the name of the last call
  gcRet            \* GetConsumer: what the last call returned

encVars == <<passphrase, salt, encryptionConfig, encryptionConfigured>>
cfgVars == <<consumers, customHandler, encVars>>
ceVars == <<cePc, ceTodo, ceCur, ceErr>>
peVars == <<pePc, peErr>>
rcVars == <<rcPc, rcReceipt, requeued, handlerLog>>
sdVars == <<sdPc, sdStopConsumers, sdTodo, sdErr, sdCalls, stopCalls, stopErrs,
            sdPushed, sdSteps, autoPublishing, poolShutdowns>>
consSrcVars == <<consErrs, consSent>>
pubSrcVars == <<pubErrs, pubSent>>
receiptSrcVars == <<receipts, receiptsSent>>
srcVars == <<consSrcVars, pubSrcVars, receiptSrcVars>>
gcVars == <<gcName, gcRet>>

bgVars == <<cfgVars, gcVars, shutdown, shutdownSignal, centralErr, monPc, ceVars,
            peVars, rcVars, sdVars, srcVars>>

vars == <<pubVars, cfgVars, gcVars, shutdown, shutdownSignal, centralErr, monPc,
          ceVars, peVars, rcVars, sdVars, srcVars>>

(***************************************************************************)
(* Publish and PublishWithConfirmation (rabbitservice.go:121-201).         *)
(***************************************************************************)
ArgSet ==
  [confirm : BOOLEAN, input : Inputs, exchangeName : ExchangeNames,
   routingKey : RoutingKeys, wrapPayload : BOOLEAN]

NoArgs ==
  [confirm |-> FALSE, input |-> Nil, exchangeName |-> "", routingKey |-> "",
   wrapPayload |-> FALSE]

\* input == nil || (exchangeName == "" && routingKey == "")
FailsValidationEither(input, exchangeName, routingKey) ==
  input = Nil \/ exchangeName = "" \/ routingKey = ""

FailsValidation(input, exchangeName, routingKey) ==
  input = Nil \/ (exchangeName = "" /\ routingKey = "")

\* atomic.AddUint64(&rs.letterCount, 1); MaxCalls keeps the counter far below 2^64.
AddUint64Lost(n, delta) == n

AddUint64(n, delta) == n + delta

\* No key: the Hashkey of a configuration for which none was derived.
NoKey == <<>>

\* The encryption configuration of a call that has not reached the pipeline.
NoConfig == [Enabled |-> FALSE, Hashkey |-> NoKey]

\* The payload pipeline encrypts when the encryption configuration it is
\* given says so (spec 4.2: compression and encryption are "each independently
\* toggleable by configuration"); it is given no other word of the service.
Encrypts(cfg) == cfg.Enabled

\* CreateWrappedPayload embeds the LetterID; CreatePayload does not.  Both are
\* given rs.Config.EncryptionConfig.
PayloadOf(a, id) ==
  [data      |-> IF a.wrapPayload THEN <<"wrapped", a.input, id>>
                                  ELSE <<"plain", a.input>>,
   encrypted |-> Encrypts(encryptionConfig),
   key       |-> IF Encrypts(encryptionConfig) THEN encryptionConfig.Hashkey
                                               ELSE NoKey]

\* &Letter{LetterID: currentCount, Body: data, Envelope: &Envelope{...}}; the
\* field confirm records through which of the Publisher's two entry points
\* (Publish, PublishWithConfirmation) the letter went.
NewLetterTransient(a, id) ==
  [LetterID |-> id,
   Body     |-> PayloadOf(a, id),
   Envelope |-> [Exchange     |-> a.exchangeName,
                 RoutingKey   |-> a.routingKey,
                 ContentType  |-> "application/json",
                 Mandatory    |-> FALSE,
                 Immediate    |-> FALSE,
                 DeliveryMode |-> 1],
   confirm  |-> a.confirm]

NewLetter(a, id) ==
  [LetterID |-> id,
   Body     |-> PayloadOf(a, id),
   Envelope |-> [Exchange     |-> a.exchangeName,
                 RoutingKey   |-> a.routingKey,
                 ContentType  |-> "application/json",
                 Mandatory    |-> FALSE,
                 Immediate    |-> FALSE,
                 DeliveryMode |-> 2],
   confirm  |-> a.confirm]

\* if err != nil { return err } ... rs.Publisher.Publish(&Letter{...})
HandOffIgnoringErr(err, letter, queue) == Append(queue, letter)

HandOff(err, letter, queue) ==
  IF err # NoErr THEN queue ELSE Append(queue, letter)

RECURSIVE SumOver(_, _)
SumOver(f, S) ==
  IF S = {} THEN 0
  ELSE LET x == CHOOSE y \in S : TRUE IN f[x] + SumOver(f, S \ {x})

\* Calls issued so far by all callers.
TotalCalls == SumOver(pubCalls, Callers)

\* Entry and validation: an invalid call returns at once.
PublishBegin(c) ==
  /\ pubPc[c] = "idle"
  /\ TotalCalls < MaxCalls
  /\ \E a \in ArgSet :
       /\ pubArgs' = [pubArgs EXCEPT ![c] = a]
       /\ pubCalls' = [pubCalls EXCEPT ![c] = @ + 1]
       /\ pipeErr' = [pipeErr EXCEPT ![c] = NoErr]
       /\ handed' = [handed EXCEPT ![c] = <<>>]
       /\ pipeCfg' = [pipeCfg EXCEPT ![c] = NoConfig]
       /\ IF FailsValidation(a.input, a.exchangeName, a.routingKey)
            THEN /\ pubRet' = [pubRet EXCEPT ![c] = ErrValidation(a.confirm)]
                 /\ pubPc' = pubPc
                 /\ issuedAt' = [issuedAt EXCEPT ![c] = 0]
            ELSE /\ pubRet' = [pubRet EXCEPT ![c] = NoErr]
                 /\ pubPc' = [pubPc EXCEPT ![c] = "load"]
                 /\ issuedAt' = [issuedAt EXCEPT ![c] = letterCount]
  /\ UNCHANGED <<letterCount, currentCount, assignedIDs>>
  /\ UNCHANGED bgVars

\* currentCount := atomic.LoadUint64(&rs.letterCount)
PublishLoad(c) ==
  /\ pubPc[c] = "load"
  /\ currentCount' = [currentCount EXCEPT ![c] = letterCount]
  /\ assignedIDs' = [assignedIDs EXCEPT ![c] = Append(@, letterCount)]
  /\ pubPc' = [pubPc EXCEPT ![c] = "add"]
  /\ UNCHANGED <<letterCount, pubArgs, pipeErr, pubRet, pubCalls, handed, pipeCfg,
                 issuedAt>>
  /\ UNCHANGED bgVars

\* atomic.AddUint64(&rs.letterCount, 1)
PublishAdd(c) ==
  /\ pubPc[c] = "add"
  /\ letterCount' = AddUint64(letterCount, 1)
  /\ pubPc' = [pubPc EXCEPT ![c] = "payload"]
  /\ UNCHANGED <<pubArgs, currentCount, pipeErr, pubRet, pubCalls, assignedIDs,
                 handed, pipeCfg, issuedAt>>
  /\ UNCHANGED bgVars

\* The payload pipeline, then the hand-off to the Publisher and the return.
PublishPayload(c) ==
  /\ pubPc[c] = "payload"
  /\ pipeCfg' = [pipeCfg EXCEPT ![c] = encryptionConfig]
  /\ \E err \in {NoErr, ErrPipeline} :
       /\ pipeErr' = [pipeErr EXCEPT ![c] = err]
       /\ pubRet' = [pubRet EXCEPT ![c] = err]
       /\ handed' =
            [handed EXCEPT
               ![c] = HandOff(err, NewLetter(pubArgs[c], currentCount[c]), @)]
  /\ pubPc' = [pubPc EXCEPT ![c] = "idle"]
  /\ issuedAt' = [issuedAt EXCEPT ![c] = 0]
  /\ UNCHANGED <<letterCount, pubArgs, currentCount, pubCalls, assignedIDs>>
  /\ UNCHANGED bgVars

(***************************************************************************)
(* The collaborators' sources: consumer.Errors(), Publisher.Errors() and   *)
(* Publisher.PublishReceipts().  What arrives on them is the environment's *)
(* choice.                                                                 *)
(***************************************************************************)
ConsumerNames == {"c1", "c2"}
LetterIDs == {0, 1}
\* A *Letter is nil, or points to a letter: the empty or the one-letter sequence.
NoLetter == <<>>
NoConsumer == "none"

\* An error value on the central stream: its wording (kind), where it comes
\* from and the number it carries (a LetterID, or the sender's count).
ErrorOf(kind, from, n) == [kind |-> kind, from |-> from, n |-> n]

\* The k-th error of a consumer, of the Publisher.
ConsumerError(c, k) == ErrorOf("consumer", c, k)
PublisherError(k) == ErrorOf("publisher", "publisher", k)

\* The error StopConsuming returns for consumer c.
StopError(c) == ErrorOf("stop", c, 0)

\* fmt.Errorf("failed to publish letter %d... retrying", receipt.LetterID)
RetryingError(id) == ErrorOf("retrying", "receipts", id)

\* fmt.Errorf("failed to publish a letter %d and unable to retry as a copy of
\* the letter was not received", receipt.LetterID)
UnrecoverableError(id) == ErrorOf("unrecoverable", "receipts", id)

\* The letter a failed receipt may carry.
FailedLetterOf(id) ==
  NewLetter([confirm |-> TRUE, input |-> "payload", exchangeName |-> "orders",
             routingKey |-> "new", wrapPayload |-> FALSE], id)

\* PublishReceipt{LetterID, FailedLetter, Success} (part_000:12-17).
ReceiptSet ==
  {[LetterID |-> id, Success |-> TRUE, FailedLetter |-> NoLetter] : id \in LetterIDs}
  \cup {[LetterID |-> id, Success |-> FALSE, FailedLetter |-> <<FailedLetterOf(id)>>] :
          id \in LetterIDs}
  \cup {[LetterID |-> id, Success |-> FALSE, FailedLetter |-> NoLetter] :
          id \in LetterIDs}

NoReceipt == [LetterID |-> 0, Success |-> TRUE, FailedLetter |-> NoLetter]

\* Errors reported so far, by all consumers and the Publisher.
SourceErrs == SumOver(consSent, ConsumerNames) + pubSent

\* A consumer reports an error on its error source.
ConsumerReports(c) ==
  /\ c \in consumers
  /\ SourceErrs < MaxSourceErrs
  /\ consSent' = [consSent EXCEPT ![c] = @ + 1]
  /\ consErrs' = [consErrs EXCEPT ![c] = Append(@, ConsumerError(c, consSent[c] + 1))]
  /\ UNCHANGED <<pubVars, cfgVars, gcVars, shutdown, shutdownSignal, centralErr, monPc,
                 ceVars, peVars, rcVars, sdVars, pubSrcVars, receiptSrcVars>>

\* The Publisher reports an error on its error source.
PublisherReports ==
  /\ SourceErrs < MaxSourceErrs
  /\ pubSent' = pubSent + 1
  /\ pubErrs' = Append(pubErrs, PublisherError(pubSent + 1))
  /\ UNCHANGED <<pubVars, cfgVars, gcVars, shutdown, shutdownSignal, centralErr, monPc,
                 ceVars, peVars, rcVars, sdVars, consSrcVars, receiptSrcVars>>

\* The Publisher puts a receipt on its receipt source.
PublisherReceipt ==
  /\ Len(receiptsSent) < MaxReceipts
  /\ \E r \in ReceiptSet :
       /\ receiptsSent' = Append(receiptsSent, r)
       /\ receipts' = Append(receipts, r)
  /\ UNCHANGED <<pubVars, cfgVars, gcVars, shutdown, shutdownSignal, centralErr, monPc,
                 ceVars, peVars, rcVars, sdVars, consSrcVars, pubSrcVars>>

\* The goroutines that push on rs.centralErr (make(chan error): unbuffered, so
\* a push completes when the application receives it).  The stream is kept per
\* pusher: the order in which the application sees two pushers' errors is not
\* recorded.
Pushers == {"consumerLoop", "publisherLoop", "receiptLoop", "Shutdown"}

\* The application receives err, pushed by goroutine g.
Received(g, err) == [centralErr EXCEPT ![g] = Append(@, err)]

(***************************************************************************)
(* The shared flag and the shutdown monitor (rabbitservice.go:239-252).    *)
(***************************************************************************)
\* make(chan bool, 1)
ShutdownSignalCap == 1

\* rs.shutdown is read by the loops and written by the monitor with no
\* synchronization: a read that races with the write may still see false.
\* A loop's read of the flag and the select that follows it are one step: the
\* flag turning true between the two is the read that still sees false.
ReadShutdown == IF shutdown THEN {TRUE, FALSE} ELSE {FALSE}

\* break MonitorLoop: where the monitor stands after it took the signal.
AfterSignalKeepsPolling(pc) == pc

AfterSignal(pc) == "done"

\* case <-rs.shutdownSignal: rs.shutdown = true; break MonitorLoop
MonitorTakesSignal ==
  /\ monPc = "poll"
  /\ shutdownSignal > 0
  /\ shutdownSignal' = shutdownSignal - 1
  /\ shutdown' = TRUE
  /\ monPc' = AfterSignal(monPc)
  /\ UNCHANGED <<pubVars, cfgVars, gcVars, centralErr, ceVars, peVars, rcVars, sdVars,
                 srcVars>>

\* default: time.Sleep(rs.monitorSleepInterval)
MonitorSleeps ==
  /\ monPc = "poll"
  /\ shutdownSignal = 0
  /\ UNCHANGED vars

(***************************************************************************)
(* collectConsumerErrors (rabbitservice.go:254-277).                       *)
(***************************************************************************)
\* The error a loop took from a source and holds until rs.centralErr <- err
\* completes.
HeldDropped(err) == <<>>

Held(err) == <<err>>

\* for _, consumer := range rs.consumers: the next consumer, in any order;
\* after the last one, the sleep and the next cycle.
ConsumerLoopRange ==
  /\ cePc = "range"
  /\ IF ceTodo # {}
       THEN \E c \in ceTodo :
              /\ ceCur' = c
              /\ ceTodo' = ceTodo \ {c}
              /\ cePc' = "check"
       ELSE /\ ceTodo' = consumers
            /\ ceCur' = NoConsumer
            /\ cePc' = "range"
  /\ UNCHANGED <<pubVars, cfgVars, gcVars, shutdown, shutdownSignal, centralErr, monPc,
                 ceErr, peVars, rcVars, sdVars, srcVars>>

\* if rs.shutdown { break MonitorLoop }, the flag seen true.
ConsumerLoopExit ==
  /\ cePc = "check"
  /\ TRUE \in ReadShutdown
  /\ cePc' = "done"
  /\ UNCHANGED <<pubVars, cfgVars, gcVars, shutdown, shutdownSignal, centralErr, monPc,
                 ceTodo, ceCur, ceErr, peVars, rcVars, sdVars, srcVars>>

\* The flag seen false, then select { case err := <-consumer.Errors(): ...;
\* default: break IndividualConsumerLoop }
ConsumerLoopSelect ==
  /\ cePc = "check"
  /\ FALSE \in ReadShutdown
  /\ IF consErrs[ceCur] # <<>>
       THEN /\ consErrs' = [consErrs EXCEPT ![ceCur] = Tail(@)]
            /\ ceErr' = Held(Head(consErrs[ceCur]))
            /\ cePc' = IF ceErr' = <<>> THEN "check" ELSE "send"
       ELSE /\ cePc' = "range"
            /\ UNCHANGED <<consErrs, ceErr>>
  /\ UNCHANGED <<pubVars, cfgVars, gcVars, shutdown, shutdownSignal, centralErr, monPc,
                 ceTodo, ceCur, peVars, rcVars, sdVars, consSent, pubSrcVars,
                 receiptSrcVars>>

\* rs.centralErr <- err completes: the application receives the error.
ConsumerLoopPushed ==
  /\ cePc = "send"
  /\ centralErr' = Received("consumerLoop", Head(ceErr))
  /\ ceErr' = <<>>
  /\ cePc' = "check"
  /\ UNCHANGED <<pubVars, cfgVars, gcVars, shutdown, shutdownSignal, monPc, ceTodo, ceCur,
                 peVars, rcVars, sdVars, srcVars>>

\* A consumer whose failure recurs: it puts its error on its error source
\* again whenever the source is empty.  These errors are not numbered, so that
\* a consumer can go on reporting for ever.
ConsumerReportsAgain(c) ==
  /\ c \in consumers
  /\ consErrs[c] = <<>>
  /\ consErrs' = [consErrs EXCEPT ![c] = <<ConsumerError(c, 0)>>]
  /\ UNCHANGED <<pubVars, cfgVars, gcVars, shutdown, shutdownSignal, centralErr,
                 monPc, ceVars, peVars, rcVars, sdVars, consSent, pubSrcVars,
                 receiptSrcVars>>

\* rs.centralErr <- err completes, the application keeping no record of what
\* it received.
ConsumerLoopDelivered ==
  /\ cePc = "send"
  /\ ceErr' = <<>>
  /\ cePc' = "check"
  /\ UNCHANGED <<pubVars, cfgVars, gcVars, shutdown, shutdownSignal, centralErr,
                 monPc, ceTodo, ceCur, peVars, rcVars, sdVars, srcVars>>

(***************************************************************************)
(* collectAutoPublisherErrors (rabbitservice.go:279-295).                  *)
(***************************************************************************)
PublisherLoopExit ==
  /\ pePc = "check"
  /\ TRUE \in ReadShutdown
  /\ pePc' = "done"
  /\ UNCHANGED <<pubVars, cfgVars, gcVars, shutdown, shutdownSignal, centralErr, monPc,
                 ceVars, peErr, rcVars, sdVars, srcVars>>

\* The flag seen false, then select { case err := <-rs.Publisher.Errors():
\* ...; default: time.Sleep }
PublisherLoopSelect ==
  /\ pePc = "check"
  /\ FALSE \in ReadShutdown
  /\ IF pubErrs # <<>>
       THEN /\ pubErrs' = Tail(pubErrs)
            /\ peErr' = Held(Head(pubErrs))
            /\ pePc' = IF peErr' = <<>> THEN "check" ELSE "send"
       ELSE /\ pePc' = "check"
            /\ UNCHANGED <<pubErrs, peErr>>
  /\ UNCHANGED <<pubVars, cfgVars, gcVars, shutdown, shutdownSignal, centralErr, monPc,
                 ceVars, rcVars, sdVars, consSrcVars, pubSent, receiptSrcVars>>

\* rs.centralErr <- err completes.
PublisherLoopPushed ==
  /\ pePc = "send"
  /\ centralErr' = Received("publisherLoop", Head(peErr))
  /\ peErr' = <<>>
  /\ pePc' = "check"
  /\ UNCHANGED <<pubVars, cfgVars, gcVars, shutdown, shutdownSignal, monPc, ceVars,
                 rcVars, sdVars, srcVars>>

(***************************************************************************)
(* The receipt loops: processPublishReceipts (rabbitservice.go:315-339),   *)
(* the default, and invokeProcessPublishReceipts (297-313), the one        *)
(* started when a handler was given.                                       *)
(***************************************************************************)
\* if processPublishReceipts != nil { go rs.invokeProcessPublishReceipts(...) }
\* else { go rs.processPublishReceipts() }
DefaultLoopStartedToo(custom) == TRUE

DefaultLoopStarted(custom) == ~custom

CustomLoopStarted(custom) == custom

\* The error pushed for a failed receipt (lines 326-331).
ReceiptErrorAlwaysRetrying(r) == RetryingError(r.LetterID)

ReceiptError(r) ==
  IF r.FailedLetter # NoLetter
    THEN RetryingError(r.LetterID)
    ELSE UnrecoverableError(r.LetterID)

\* rs.Publisher.QueueLetter(receipt.FailedLetter), in the branch that has a
\* letter (lines 326-328).
RequeueNothing(r, queue) == queue

Requeue(r, queue) ==
  IF r.FailedLetter # NoLetter THEN Append(queue, Head(r.FailedLetter)) ELSE queue

\* if !receipt.Success: the receipts the default loop reports.
ReportedAlways(r) == TRUE

Reported(r) == ~r.Success

\* What the default loop does first with a failed receipt: in both branches
\* the push on rs.centralErr (lines 327, 330); QueueLetter comes after it
\* (line 328).
AfterTakeRequeueFirst(r) == IF r.FailedLetter # NoLetter THEN "requeue" ELSE "send"

AfterTake(r) == "send"

ReceiptLoopExit ==
  /\ rcPc = "check"
  /\ TRUE \in ReadShutdown
  /\ rcPc' = "done"
  /\ UNCHANGED <<pubVars, cfgVars, gcVars, shutdown, shutdownSignal, centralErr, monPc,
                 ceVars, peVars, rcReceipt, requeued, handlerLog, sdVars, srcVars>>

\* processPublishReceipts, the flag seen false: select { case receipt := <-rs.Publisher.
\* PublishReceipts(): if !receipt.Success {...}; default: time.Sleep }
DefaultLoopSelect ==
  /\ DefaultLoopStarted(customHandler)
  /\ rcPc = "check"
  /\ FALSE \in ReadShutdown
  /\ IF receipts # <<>>
       THEN /\ receipts' = Tail(receipts)
            /\ IF Reported(Head(receipts))
                 THEN /\ rcReceipt' = Head(receipts)
                      /\ rcPc' = AfterTake(Head(receipts))
                 ELSE /\ rcReceipt' = NoReceipt
                      /\ rcPc' = "check"
       ELSE /\ rcPc' = "check"
            /\ UNCHANGED <<receipts, rcReceipt>>
  /\ UNCHANGED <<pubVars, cfgVars, gcVars, shutdown, shutdownSignal, centralErr, monPc,
                 ceVars, peVars, requeued, handlerLog, sdVars, consSrcVars,
                 pubSrcVars, receiptsSent>>

\* rs.centralErr <- fmt.Errorf(...) completes; QueueLetter comes after it.
DefaultLoopPushed ==
  /\ rcPc = "send"
  /\ centralErr' = Received("receiptLoop", ReceiptError(rcReceipt))
  /\ IF rcReceipt.FailedLetter # NoLetter
       THEN /\ rcPc' = "requeue"
            /\ UNCHANGED rcReceipt
       ELSE /\ rcPc' = "check"
            /\ rcReceipt' = NoReceipt
  /\ UNCHANGED <<pubVars, cfgVars, gcVars, shutdown, shutdownSignal, monPc, ceVars, peVars,
                 requeued, handlerLog, sdVars, srcVars>>

\* rs.Publisher.QueueLetter(receipt.FailedLetter)
DefaultLoopRequeue ==
  /\ rcPc = "requeue"
  /\ requeued' = Requeue(rcReceipt, requeued)
  /\ rcReceipt' = NoReceipt
  /\ rcPc' = "check"
  /\ UNCHANGED <<pubVars, cfgVars, gcVars, shutdown, shutdownSignal, centralErr, monPc,
                 ceVars, peVars, handlerLog, sdVars, srcVars>>

\* invokeProcessPublishReceipts, the flag seen false: select { case receipt := <-rs.Publisher.
\* PublishReceipts(): processReceipts(receipt); default: time.Sleep }
CustomLoopSelect ==
  /\ CustomLoopStarted(customHandler)
  /\ rcPc = "check"
  /\ FALSE \in ReadShutdown
  /\ IF receipts # <<>>
       THEN /\ receipts' = Tail(receipts)
            /\ handlerLog' = Append(handlerLog, Head(receipts))
       ELSE UNCHANGED <<receipts, handlerLog>>
  /\ rcPc' = "check"
  /\ UNCHANGED <<pubVars, cfgVars, gcVars, shutdown, shutdownSignal, centralErr, monPc,
                 ceVars, peVars, rcReceipt, requeued, sdVars, consSrcVars,
                 pubSrcVars, receiptsSent>>

(***************************************************************************)
(* Shutdown (rabbitservice.go:219-237).                                    *)
(***************************************************************************)
\* The consumers left to stop after StopConsuming on c returned (failed or
\* not): the range goes on to the others.
RemainingAfterFailedStop(todo, c, failed) == IF failed THEN {} ELSE todo \ {c}

RemainingAfterStop(todo, c, failed) == todo \ {c}

\* The for ... range rs.consumers of Shutdown is over (nothing to range over
\* when stopConsumers is false): rs.ConnectionPool.Shutdown() comes next.
RangeOverEarly(todo) == TRUE

RangeOver(todo) == todo = {}

\* A call Shutdown makes on a collaborator: the operation and, for
\* StopConsuming, the consumer.
Step(op, c) == [op |-> op, consumer |-> c]

\* rs.shutdownSignal <- true goes through when the channel has a free slot.
CanSignalUnbuffered(n) == n < ShutdownSignalCap - 1

CanSignal(n) == n < ShutdownSignalCap

\* rs.Publisher.StopAutoPublish(); time.Sleep(1 * time.Second)
ShutdownCall ==
  /\ sdPc = "idle"
  /\ sdCalls < MaxShutdowns
  /\ \E stopConsumers \in BOOLEAN : sdStopConsumers' = stopConsumers
  /\ sdCalls' = sdCalls + 1
  /\ autoPublishing' = FALSE
  /\ sdSteps' = <<Step("StopAutoPublish", NoConsumer)>>
  /\ sdPc' = "signal"
  /\ UNCHANGED <<pubVars, cfgVars, gcVars, shutdown, shutdownSignal, centralErr, monPc,
                 ceVars, peVars, rcVars, sdTodo, sdErr, stopCalls, stopErrs,
                 sdPushed, poolShutdowns, srcVars>>

\* rs.shutdownSignal <- true (blocks while the slot is taken);
\* time.Sleep(1 * time.Second); if stopConsumers { for ... range rs.consumers
ShutdownSignals ==
  /\ sdPc = "signal"
  /\ CanSignal(shutdownSignal)
  /\ shutdownSignal' = shutdownSignal + 1
  /\ sdTodo' = IF sdStopConsumers THEN consumers ELSE {}
  /\ sdSteps' = Append(sdSteps, Step("signal", NoConsumer))
  /\ sdPc' = "stop"
  /\ UNCHANGED <<pubVars, cfgVars, gcVars, shutdown, centralErr, monPc, ceVars, peVars,
                 rcVars, sdStopConsumers, sdErr, sdCalls, stopCalls, stopErrs,
                 sdPushed, autoPublishing, poolShutdowns, srcVars>>

\* err := consumer.StopConsuming(true, true); if err != nil { rs.centralErr <- err }
ShutdownStops ==
  /\ sdPc = "stop"
  /\ \E c \in sdTodo, failed \in BOOLEAN :
       /\ stopCalls' = [stopCalls EXCEPT ![c] = @ + 1]
       /\ sdSteps' = Append(sdSteps, Step("StopConsuming", c))
       /\ sdTodo' = RemainingAfterStop(sdTodo, c, failed)
       /\ IF failed
            THEN /\ sdErr' = <<StopError(c)>>
                 /\ stopErrs' = Append(stopErrs, c)
                 /\ sdPc' = "send"
            ELSE UNCHANGED <<sdErr, stopErrs, sdPc>>
  /\ UNCHANGED <<pubVars, cfgVars, gcVars, shutdown, shutdownSignal, centralErr, monPc,
                 ceVars, peVars, rcVars, sdStopConsumers, sdCalls, sdPushed,
                 autoPublishing, poolShutdowns, srcVars>>

\* rs.centralErr <- err completes.
ShutdownPushed ==
  /\ sdPc = "send"
  /\ centralErr' = Received("Shutdown", Head(sdErr))
  /\ sdPushed' = Append(sdPushed, Head(sdErr))
  /\ sdErr' = <<>>
  /\ sdPc' = "stop"
  /\ UNCHANGED <<pubVars, cfgVars, gcVars, shutdown, shutdownSignal, monPc, ceVars, peVars,
                 rcVars, sdStopConsumers, sdTodo, sdCalls, stopCalls, stopErrs,
                 sdSteps, autoPublishing, poolShutdowns, srcVars>>

\* rs.ConnectionPool.Shutdown(), and the return: what the call recorded of
\* itself goes with it.
ShutdownPool ==
  /\ sdPc = "stop"
  /\ RangeOver(sdTodo)
  /\ poolShutdowns' = poolShutdowns + 1
  /\ sdStopConsumers' = FALSE
  /\ stopCalls' = [c \in ConsumerNames |-> 0]
  /\ stopErrs' = <<>>
  /\ sdPushed' = <<>>
  /\ sdSteps' = <<>>
  /\ sdPc' = "idle"
  /\ UNCHANGED <<pubVars, cfgVars, gcVars, shutdown, shutdownSignal, centralErr, monPc,
                 ceVars, peVars, rcVars, sdTodo, sdErr, sdCalls, autoPublishing,
                 srcVars>>

(***************************************************************************)
(* GetConsumer (rabbitservice.go:203-211).                                 *)
(***************************************************************************)
\* The names a caller asks for: the configured ones and one never configured.
AskedNames == ConsumerNames \cup {"ghost"}

\* rs.consumers[consumerName] = consumer (line 114): the *Consumer that
\* createConsumers built for that name.
ConsumerOf(name) == [builtFor |-> name]

\* fmt.Errorf("consumer %q was not found", consumerName)
NotFoundError(name) == ErrorOf("not found", name, 0)

\* A returned pointer or error is nil (the empty sequence) or one value.
Returned(consumer, err) == [consumer |-> consumer, err |-> err]

\* if consumer, ok := rs.consumers[consumerName]; ok { return consumer, nil }
\* return nil, fmt.Errorf(...)
LookupWithoutOk(registry, name) ==
  Returned(IF name \in registry THEN <<ConsumerOf(name)>> ELSE <<>>, <<>>)

Lookup(registry, name) ==
  IF name \in registry
    THEN Returned(<<ConsumerOf(name)>>, <<>>)
    ELSE Returned(<<>>, <<NotFoundError(name)>>)

GetConsumer ==
  /\ \E consumerName \in AskedNames :
       /\ gcName' = consumerName
       /\ gcRet' = Lookup(consumers, consumerName)
  /\ UNCHANGED <<pubVars, cfgVars, shutdown, shutdownSignal, centralErr, monPc,
                 ceVars, peVars, rcVars, sdVars, srcVars>>

(***************************************************************************)
(* NewRabbitService (rabbitservice.go:29-97): the state once it returned.  *)
(***************************************************************************)
\* The passphrases and salts a caller of NewRabbitService passes.
Passphrases == {"", "passphrase"}
Salts == {"", "salt"}

\* GetHashWithArgon(passphrase, salt, ..., 32): the derived key.
GetHashWithArgon(p, s) == <<"argon", p, s>>

\* if config.EncryptionConfig.Enabled && len(passphrase) > 0 && len(salt) > 0
DerivesKey(enabled, p, s) == enabled /\ p # "" /\ s # ""

\* The encryption block of NewRabbitService (lines 68-79): the Hashkey is set
\* and rs.encryptionConfigured raised under that condition; nothing is changed
\* otherwise, the Enabled flag of the configuration in neither case.
InitEncryption ==
  \E enabled \in BOOLEAN, p \in Passphrases, s \in Salts :
    /\ passphrase = p
    /\ salt = s
    /\ encryptionConfig =
         [Enabled |-> enabled,
          Hashkey |-> IF DerivesKey(enabled, p, s) THEN GetHashWithArgon(p, s)
                                                   ELSE NoKey]
    /\ encryptionConfigured = DerivesKey(enabled, p, s)

\* The registries config.ConsumerConfigs can build: none, one or two consumers.
Registries == {{}, {"c1"}, {"c1", "c2"}}

InitService ==
  /\ consumers \in Registries
  /\ customHandler \in BOOLEAN
  /\ shutdown = FALSE
  /\ shutdownSignal = 0
  /\ centralErr = [g \in Pushers |-> <<>>]
  /\ monPc = "poll"
  /\ cePc = "range"
  /\ ceTodo = consumers
  /\ ceCur = NoConsumer
  /\ ceErr = <<>>
  /\ pePc = "check"
  /\ peErr = <<>>
  /\ rcPc = "check"
  /\ rcReceipt = NoReceipt
  /\ requeued = <<>>
  /\ handlerLog = <<>>
  /\ sdPc = "idle"
  /\ sdStopConsumers = FALSE
  /\ sdTodo = {}
  /\ sdErr = <<>>
  /\ sdCalls = 0
  /\ stopCalls = [c \in ConsumerNames |-> 0]
  /\ stopErrs = <<>>
  /\ sdPushed = <<>>
  /\ sdSteps = <<>>
  /\ autoPublishing = TRUE
  /\ poolShutdowns = 0
  /\ consErrs = [c \in ConsumerNames |-> <<>>]
  /\ consSent = [c \in ConsumerNames |-> 0]
  /\ pubErrs = <<>>
  /\ pubSent = 0
  /\ receipts = <<>>
  /\ receiptsSent = <<>>
  /\ gcName = NoConsumer
  /\ gcRet = Returned(<<>>, <<>>)

InitPublish ==
  /\ letterCount = 0
  /\ pubPc = [c \in Callers |-> "idle"]
  /\ pubArgs = [c \in Callers |-> NoArgs]
  /\ currentCount = [c \in Callers |-> 0]
  /\ pipeErr = [c \in Callers |-> NoErr]
  /\ pubRet = [c \in Callers |-> NoErr]
  /\ pubCalls = [c \in Callers |-> 0]
  /\ assignedIDs = [c \in Callers |-> <<>>]
  /\ handed = [c \in Callers |-> <<>>]
  /\ pipeCfg = [c \in Callers |-> NoConfig]
  /\ issuedAt = [c \in Callers |-> 0]

Init == InitPublish /\ InitService /\ InitEncryption

\* The service built from a configuration with encryption off and given no
\* passphrase and no salt.
InitPlain == Init /\ ~encryptionConfig.Enabled /\ passphrase = "" /\ salt = ""

NextPublish ==
  \E c \in Callers :
    \/ PublishBegin(c)
    \/ PublishLoad(c)
    \/ PublishAdd(c)
    \/ PublishPayload(c)

\* Publish and PublishWithConfirmation read neither the registry nor the
\* receipt handler: the service is built with no consumer and no handler.
NoBackground == consumers = {} /\ ~customHandler

InitConcurrent == InitPlain /\ NoBackground

\* Concurrent callers, the payloads not encrypted.
SpecPublish == InitConcurrent /\ [][NextPublish]_vars

\* The one goroutine that calls Publish / PublishWithConfirmation when no call
\* is concurrent with another.
SoleCaller == "a"

NextSequential ==
  \/ PublishBegin(SoleCaller)
  \/ PublishLoad(SoleCaller)
  \/ PublishAdd(SoleCaller)
  \/ PublishPayload(SoleCaller)

InitSequential == Init /\ NoBackground

\* One call at a time, on a service built with any encryption configuration,
\* passphrase and salt.
SpecSequential == InitSequential /\ [][NextSequential]_vars

\* The shutdown monitor and the Shutdown operation.
NextShutdown ==
  \/ MonitorTakesSignal
  \/ MonitorSleeps
  \/ ShutdownCall
  \/ ShutdownSignals
  \/ ShutdownStops
  \/ ShutdownPushed
  \/ ShutdownPool

\* The consumer-error loop and the publisher-error loop with their sources.
NextErrorLoops ==
  \/ \E c \in ConsumerNames : ConsumerReports(c)
  \/ PublisherReports
  \/ ConsumerLoopRange
  \/ ConsumerLoopExit
  \/ ConsumerLoopSelect
  \/ ConsumerLoopPushed
  \/ PublisherLoopExit
  \/ PublisherLoopSelect
  \/ PublisherLoopPushed

\* The receipt loop with its source.
NextReceiptLoop ==
  \/ PublisherReceipt
  \/ ReceiptLoopExit
  \/ DefaultLoopSelect
  \/ DefaultLoopPushed
  \/ DefaultLoopRequeue
  \/ CustomLoopSelect

\* The error loops run with the monitor and Shutdown.  The receipt loop does
\* not run here, so which of the two was started makes no difference.
NextFanIn == NextShutdown \/ NextErrorLoops

\* The service built without a custom receipt handler.
InitFanIn == InitPlain /\ ~customHandler

SpecFanIn == InitFanIn /\ [][NextFanIn]_vars

\* The receipt loop runs with the monitor and Shutdown.
NextReceipts == NextShutdown \/ NextReceiptLoop

SpecReceipts == InitPlain /\ [][NextReceipts]_vars

\* The service whose collaborators report nothing: the sources stay empty, so
\* the loops only poll, and the only pushes on rs.centralErr are Shutdown's.
NextQuiet ==
  \/ NextShutdown
  \/ ConsumerLoopRange
  \/ ConsumerLoopExit
  \/ ConsumerLoopSelect
  \/ PublisherLoopExit
  \/ PublisherLoopSelect
  \/ ReceiptLoopExit
  \/ DefaultLoopSelect
  \/ CustomLoopSelect

\* Every goroutine keeps running (WF on its steps), a loop that keeps reading
\* the flag after it was set eventually sees it (SF on its exit), a Shutdown
\* that was called runs on, and the application drains rs.centralErr (WF on
\* the completion of a push).  Nothing obliges the application to call
\* Shutdown.
FairnessQuiet ==
  /\ WF_vars(MonitorTakesSignal)
  /\ WF_vars(ShutdownSignals)
  /\ WF_vars(ShutdownStops)
  /\ WF_vars(ShutdownPushed)
  /\ WF_vars(ShutdownPool)
  /\ WF_vars(ConsumerLoopRange)
  /\ WF_vars(ConsumerLoopSelect)
  /\ SF_vars(ConsumerLoopExit)
  /\ WF_vars(PublisherLoopSelect)
  /\ SF_vars(PublisherLoopExit)
  /\ WF_vars(DefaultLoopSelect)
  /\ WF_vars(CustomLoopSelect)
  /\ SF_vars(ReceiptLoopExit)

FairSpecQuiet == InitPlain /\ [][NextQuiet]_vars /\ FairnessQuiet

\* The consumer-error loop with consumers that report again and again, the
\* monitor and Shutdown.
NextSweep ==
  \/ \E c \in ConsumerNames : ConsumerReportsAgain(c)
  \/ ConsumerLoopRange
  \/ ConsumerLoopExit
  \/ ConsumerLoopSelect
  \/ ConsumerLoopDelivered
  \/ NextShutdown

\* The loop's goroutine keeps running, the application drains rs.centralErr
\* (WF on the completion of a push), the monitor keeps polling and a Shutdown
\* that was called runs on.  Nothing obliges a consumer to report, nor the
\* application to call Shutdown.
FairnessSweep ==
  /\ WF_vars(ConsumerLoopRange)
  /\ WF_vars(ConsumerLoopSelect)
  /\ WF_vars(ConsumerLoopDelivered)
  /\ WF_vars(MonitorTakesSignal)
  /\ WF_vars(ShutdownSignals)
  /\ WF_vars(ShutdownStops)
  /\ WF_vars(ShutdownPushed)
  /\ WF_vars(ShutdownPool)

FairSpecSweep == InitFanIn /\ [][NextSweep]_vars /\ FairnessSweep

\* GetConsumer called at any time while the goroutines that read
\* rs.consumers, and the others, run on the quiet service.
NextRegistry == GetConsumer \/ NextQuiet

SpecRegistry == InitPlain /\ [][NextRegistry]_vars

\* The whole program: the callers of Publish and of GetConsumer, the
\* background goroutines, the caller of Shutdown and the collaborators.
Next ==
  NextPublish \/ GetConsumer \/ NextShutdown \/ NextErrorLoops \/ NextReceiptLoop

Spec == Init /\ [][Next]_vars

(***************************************************************************)
(* Claims about the publish protocol, checked under SpecPublish.           *)
(***************************************************************************)
\* Every LetterID loaded so far, by the caller and the position of the call.
AssignedSlots ==
  UNION {{<<c, i>> : i \in 1..Len(assignedIDs[c])} : c \in Callers}

\* C1: the LetterIDs assigned to validated Publish / PublishWithConfirmation
\* calls, by any callers in any interleaving, are pairwise distinct.
C1_LetterIDsPairwiseDistinct ==
  \A s, t \in AssignedSlots :
    s # t => assignedIDs[s[1]][s[2]] # assignedIDs[t[1]][t[2]]

\* C2: the LetterIDs assigned to one caller's successive validated calls are
\* strictly increasing, whatever the other callers do in between.
C2_PerCallerStrictlyIncreasing ==
  \A c \in Callers :
    \A i, j \in 1..Len(assignedIDs[c]) :
      i < j => assignedIDs[c][i] < assignedIDs[c][j]

\* A caller holds two LetterIDs and another caller took one in between.
C2_Witness ==
  \E c, d \in Callers :
    /\ c # d
    /\ Len(assignedIDs[c]) >= 2
    /\ Len(assignedIDs[d]) >= 1
    /\ assignedIDs[c][1] <= assignedIDs[d][1]
    /\ assignedIDs[d][1] < assignedIDs[c][2]

\* C9: a call returns a validation error if and only if the input is nil or
\* the exchange name and the routing key are both empty; a call that went
\* past validation has a non-nil input and one of the two names non-empty.
C9_ValidationErrorIff ==
  \A c \in Callers :
    pubCalls[c] > 0 =>
      LET a == pubArgs[c]
          invalid == a.input = Nil \/ (a.exchangeName = "" /\ a.routingKey = "")
      IN /\ pubPc[c] = "idle" => ((pubRet[c] \in ValidationErrs) <=> invalid)
         /\ pubPc[c] # "idle" => ~invalid

\* One call refused for its two empty names, another accepted with only a
\* routing key.
C9_Witness ==
  \E c, d \in Callers :
    /\ pubCalls[c] > 0 /\ pubPc[c] = "idle"
    /\ pubArgs[c].input # Nil
    /\ pubArgs[c].exchangeName = "" /\ pubArgs[c].routingKey = ""
    /\ pubRet[c] \in ValidationErrs
    /\ pubCalls[d] > 0 /\ pubPc[d] = "idle"
    /\ pubArgs[d].input # Nil
    /\ pubArgs[d].exchangeName = "" /\ pubArgs[d].routingKey # ""
    /\ pubRet[d] = NoErr

\* C10: when the payload pipeline fails, the call returns that error and no
\* Letter of that call reaches the Publisher.
C10_PipelineFailureStopsPublish ==
  \A c \in Callers :
    (pubPc[c] = "idle" /\ pipeErr[c] # NoErr) =>
      /\ pubRet[c] = pipeErr[c]
      /\ handed[c] = <<>>

\* A call of each entry point has returned the pipeline's error, one with a
\* wrapped payload and one without.
C10_Witness ==
  \E c, d \in Callers :
    /\ pubPc[c] = "idle" /\ pipeErr[c] = ErrPipeline /\ pubArgs[c].confirm
    /\ pubPc[d] = "idle" /\ pipeErr[d] = ErrPipeline /\ ~pubArgs[d].confirm
    /\ pubArgs[c].wrapPayload /\ ~pubArgs[d].wrapPayload

\* The calls of caller c that went past validation and did their increment:
\* the call standing between its load and its add has loaded an ID and not
\* incremented yet.
Incremented(c) == Len(assignedIDs[c]) - (IF pubPc[c] = "add" THEN 1 ELSE 0)

\* Caller c's last call has returned the payload pipeline's error.
PipelineFailed(c) == pubPc[c] = "idle" /\ pipeErr[c] # NoErr

\* C20: the letter counter never decreases, equals the number of calls that
\* passed validation and did their increment, and is greater than the
\* LetterID of every such call; a call that fails validation leaves the
\* counter as it was and hands the Publisher nothing; a call whose payload
\* pipeline failed has advanced the counter, and its LetterID is on no letter.
C20_CounterTracksIncrements ==
  /\ [][letterCount' >= letterCount]_vars
  /\ [](letterCount = SumOver([c \in Callers |-> Incremented(c)], Callers))
  /\ [](\A c \in Callers :
         \A i \in 1..Incremented(c) : assignedIDs[c][i] < letterCount)
  /\ [][\A c \in Callers :
         (pubCalls'[c] # pubCalls[c] /\ pubRet'[c] \in ValidationErrs) =>
           /\ letterCount' = letterCount
           /\ assignedIDs' = assignedIDs
           /\ handed'[c] = <<>>
           /\ pubPc'[c] = "idle"]_vars
  /\ [](\A c \in Callers :
         PipelineFailed(c) =>
           /\ letterCount > currentCount[c]
           /\ currentCount[c] = assignedIDs[c][Len(assignedIDs[c])]
           /\ \A d \in Callers :
                \A i \in 1..Len(handed[d]) :
                  handed[d][i].LetterID # currentCount[c])

(***************************************************************************)
(* Claims about calls made one at a time, checked under SpecSequential.    *)
(***************************************************************************)
\* The last call of caller c went past validation and has returned.
ReturnedValidated(c) ==
  /\ pubCalls[c] > 0
  /\ pubPc[c] = "idle"
  /\ pubRet[c] \notin ValidationErrs

\* C12: a service built with encryption enabled in the configuration but with
\* an empty passphrase or an empty salt has encryption disabled: no key was
\* derived, and the encryption configuration its Publish and
\* PublishWithConfirmation calls hand to the payload pipeline does not make
\* the pipeline encrypt, so no letter carries an encrypted body.
C12_EmptySaltLeavesEncryptionOff ==
  (encryptionConfig.Enabled /\ (passphrase = "" \/ salt = "")) =>
    /\ ~encryptionConfigured
    /\ encryptionConfig.Hashkey = NoKey
    /\ \A c \in Callers :
         /\ ReturnedValidated(c) => ~Encrypts(pipeCfg[c])
         /\ \A i \in 1..Len(handed[c]) : ~handed[c][i].Body.encrypted

\* The one letter of caller c's call carries LetterID n and the caller's
\* exchange and routing key under the fixed envelope settings.
HandedOneLetter(letters, a, n) ==
  /\ Len(letters) = 1
  /\ letters[1].LetterID = n
  /\ letters[1].Envelope.Exchange = a.exchangeName
  /\ letters[1].Envelope.RoutingKey = a.routingKey
  /\ letters[1].Envelope.ContentType = "application/json"
  /\ letters[1].Envelope.Mandatory = FALSE
  /\ letters[1].Envelope.Immediate = FALSE
  /\ letters[1].Envelope.DeliveryMode = 2
  /\ letters[1].confirm = a.confirm

\* A validated call of caller c returns in this step.
Returns(c) == pubPc[c] = "payload" /\ pubPc'[c] = "idle"

\* C13 as claimed: with no concurrent caller, every validated call issued when
\* the counter reads n has, when it returns, handed the Publisher exactly one
\* Letter, with LetterID n and the fixed envelope, and left the counter at
\* n + 1.
C13_ValidatedCallHandsOneLetter ==
  [][\A c \in Callers :
       Returns(c) =>
         /\ HandedOneLetter(handed'[c], pubArgs[c], issuedAt[c])
         /\ letterCount' = issuedAt[c] + 1]_vars

\* C13, amended: with no concurrent caller, a validated call issued when the
\* counter reads n has left the counter at n + 1 when it returns; when its
\* payload pipeline succeeded it has handed the Publisher exactly one Letter,
\* with LetterID n and the fixed envelope, and when the pipeline failed it
\* has handed none.
C13_ValidatedCallHandsOneLetterIfPipelineSucceeds ==
  [][\A c \in Callers :
       Returns(c) =>
         /\ letterCount' = issuedAt[c] + 1
         /\ pubRet'[c] = NoErr =>
              HandedOneLetter(handed'[c], pubArgs[c], issuedAt[c])
         /\ pubRet'[c] # NoErr => handed'[c] = <<>>]_vars

\* The spec's scenario, the counter at 2: Publish(payload, "orders", "new",
\* false, "") has handed its letter, with LetterID 2, and the counter reads 3.
C13_Witness ==
  /\ ReturnedValidated(SoleCaller)
  /\ pubRet[SoleCaller] = NoErr
  /\ pubArgs[SoleCaller].exchangeName = "orders"
  /\ pubArgs[SoleCaller].routingKey = "new"
  /\ ~pubArgs[SoleCaller].wrapPayload /\ ~pubArgs[SoleCaller].confirm
  /\ Len(handed[SoleCaller]) = 1
  /\ handed[SoleCaller][1].LetterID = 2
  /\ letterCount = 3

(***************************************************************************)
(* Claims about the receipt loop, checked under SpecReceipts.              *)
(***************************************************************************)
\* The receipts the loop has taken from the Publisher's receipt source.
TakenReceipts == SubSeq(receiptsSent, 1, Len(receiptsSent) - Len(receipts))

Recoverable(r) == ~r.Success /\ r.FailedLetter # NoLetter
Unrecoverable(r) == ~r.Success /\ r.FailedLetter = NoLetter
IsRetrying(e) == e.kind = "retrying"
IsUnrecoverable(e) == e.kind = "unrecoverable"

\* C3: under the default policy every failed receipt with a recoverable letter
\* that the loop took yields exactly one QueueLetter of that same letter and
\* exactly one LetterID-tagged 'retrying' error, in the order taken; only the
\* receipt the loop is working on may still wait for its push or its requeue.
C3_RecoverableFailureRequeuedOnce ==
  ~customHandler =>
    LET rec == SelectSeq(TakenReceipts, Recoverable)
        working == rcPc \in {"send", "requeue"} /\ Recoverable(rcReceipt)
        errWaits == IF rcPc = "send" /\ Recoverable(rcReceipt) THEN 1 ELSE 0
        queueWaits == IF working THEN 1 ELSE 0
    IN /\ working => rcReceipt = rec[Len(rec)]
       /\ requeued =
            [i \in 1..(Len(rec) - queueWaits) |-> Head(rec[i].FailedLetter)]
       /\ SelectSeq(centralErr["receiptLoop"], IsRetrying) =
            [i \in 1..(Len(rec) - errWaits) |-> RetryingError(rec[i].LetterID)]

\* Two recoverable failures were taken and both were pushed and requeued.
C3_Witness ==
  /\ ~customHandler
  /\ rcPc = "check"
  /\ Len(requeued) = 2
  /\ Len(SelectSeq(centralErr["receiptLoop"], IsRetrying)) = 2
  /\ requeued[1].LetterID # requeued[2].LetterID

\* C4: under the default policy every failed receipt with no recoverable
\* letter yields no requeue and exactly one error, worded differently from
\* the 'retrying' one (it says the letter cannot be retried).
C4_UnrecoverableFailureReportedOnce ==
  ~customHandler =>
    LET unrec == SelectSeq(TakenReceipts, Unrecoverable)
        rec == SelectSeq(TakenReceipts, Recoverable)
        errWaits == IF rcPc = "send" /\ Unrecoverable(rcReceipt) THEN 1 ELSE 0
    IN /\ SelectSeq(centralErr["receiptLoop"], IsUnrecoverable) =
            [i \in 1..(Len(unrec) - errWaits) |-> UnrecoverableError(unrec[i].LetterID)]
       /\ \A i \in 1..Len(unrec) :
            UnrecoverableError(unrec[i].LetterID) # RetryingError(unrec[i].LetterID)
       /\ Len(centralErr["receiptLoop"]) <= Len(unrec) + Len(rec)
       /\ Len(requeued) <= Len(rec)
       /\ rcPc = "requeue" => Recoverable(rcReceipt)

\* An unrecoverable failure was taken and reported, with nothing requeued.
C4_Witness ==
  /\ ~customHandler
  /\ rcPc = "check"
  /\ Len(SelectSeq(centralErr["receiptLoop"], IsUnrecoverable)) = 2
  /\ requeued = <<>>

\* C5: with a custom receipt handler every receipt taken from the receipt
\* source went to the handler exactly once, unchanged and in order, nothing was
\* requeued and no receipt-derived error was pushed; exactly one of the two
\* receipt loops was started.
C5_CustomHandlerOwnsReceipts ==
  /\ DefaultLoopStarted(customHandler) # CustomLoopStarted(customHandler)
  /\ customHandler =>
       /\ handlerLog = TakenReceipts
       /\ requeued = <<>>
       /\ centralErr["receiptLoop"] = <<>>
       /\ rcPc \in {"check", "done"}

\* The handler got a recoverable failure and an unrecoverable one.
C5_Witness ==
  /\ customHandler
  /\ Len(handlerLog) = 2
  /\ Recoverable(handlerLog[1])
  /\ Unrecoverable(handlerLog[2])

\* The default loop takes a successful receipt in this step.
TakesSuccessfulReceipt ==
  /\ ~customHandler
  /\ rcPc = "check"
  /\ receipts # <<>>
  /\ Head(receipts).Success
  /\ receipts' = Tail(receipts)

\* C15: under the default policy, taking a successful receipt pushes nothing
\* on the central error stream and requeues nothing: the step removes the
\* receipt from the receipt source and changes nothing else, the loop being
\* ready for the next receipt; the loop never holds a successful receipt for a
\* push or a requeue, and errors come from failed receipts only.
C15_SuccessfulReceiptLeavesNoTrace ==
  /\ [](~customHandler =>
         /\ rcPc \in {"send", "requeue"} => ~rcReceipt.Success
         /\ Len(centralErr["receiptLoop"]) <=
              Len(SelectSeq(TakenReceipts, LAMBDA r : ~r.Success)))
  /\ [][TakesSuccessfulReceipt =>
          /\ centralErr' = centralErr
          /\ requeued' = requeued
          /\ rcPc' = "check"
          /\ UNCHANGED <<pubVars, cfgVars, gcVars, shutdown, shutdownSignal, monPc,
                         ceVars, peVars, rcReceipt, handlerLog, sdVars, consSrcVars,
                         pubSrcVars, receiptsSent>>]_vars

\* The loop took a successful receipt and then an unrecoverable failure: the
\* stream holds the one error of the failure.
C15_Witness ==
  /\ ~customHandler
  /\ rcPc = "check"
  /\ Len(TakenReceipts) = 2
  /\ TakenReceipts[1].Success
  /\ Unrecoverable(TakenReceipts[2])
  /\ Len(centralErr["receiptLoop"]) = 1
  /\ requeued = <<>>

\* The 'retrying' errors the application has received, in order.
RetryingReceived == SelectSeq(centralErr["receiptLoop"], IsRetrying)

\* C19: in the default loop the 'retrying' error of a recoverable failure is
\* pushed before the letter is requeued: every requeued letter's error has
\* been received by a reader of the central stream, and the step that
\* requeues comes after that reception.  While the push is pending (nobody
\* receives) the loop stays on it: it takes no further receipt and requeues
\* nothing.
C19_RetryingErrorBeforeRequeue ==
  /\ [](~customHandler =>
         /\ Len(requeued) <= Len(RetryingReceived)
         /\ \A i \in 1..Len(requeued) :
              RetryingReceived[i].n = requeued[i].LetterID)
  /\ [][requeued' # requeued =>
          /\ centralErr' = centralErr
          /\ Len(requeued') = Len(RetryingReceived)
          /\ rcPc = "requeue"]_vars
  /\ [][(rcPc = "send" /\ centralErr' = centralErr) =>
          /\ rcPc' = "send"
          /\ rcReceipt' = rcReceipt
          /\ requeued' = requeued
          /\ Len(receipts') >= Len(receipts)]_vars

\* The push of a 'retrying' error is pending while another receipt waits in
\* the receipt source and nothing has been requeued.
C19_Witness ==
  /\ ~customHandler
  /\ rcPc = "send"
  /\ Recoverable(rcReceipt)
  /\ receipts # <<>>
  /\ requeued = <<>>
  /\ centralErr["receiptLoop"] = <<>>

(***************************************************************************)
(* Claims about Shutdown and the error loops, checked under SpecFanIn.     *)
(***************************************************************************)
\* C6: a Shutdown(true) calls StopConsuming at most once on a consumer and,
\* when its range is over, has called it exactly once on every registered
\* consumer, whether or not stops failed on the way; each failed stop is one
\* error pushed on the central stream.
C6_ShutdownStopsEveryConsumerOnce ==
  /\ \A c \in ConsumerNames :
       /\ stopCalls[c] <= 1
       /\ c \notin consumers => stopCalls[c] = 0
  /\ (sdPc = "stop" /\ sdTodo = {} /\ sdStopConsumers) =>
       \A c \in consumers : stopCalls[c] = 1
  /\ sdPushed \o sdErr = [i \in 1..Len(stopErrs) |-> StopError(stopErrs[i])]
  /\ Len(sdPushed) <= Len(centralErr["Shutdown"])
  /\ sdPushed =
       SubSeq(centralErr["Shutdown"],
              Len(centralErr["Shutdown"]) - Len(sdPushed) + 1,
              Len(centralErr["Shutdown"]))

\* Both consumers' stops failed, both were attempted and both errors pushed.
C6_Witness ==
  /\ sdPc = "stop" /\ sdTodo = {} /\ sdStopConsumers
  /\ consumers = {"c1", "c2"}
  /\ Len(stopErrs) = 2
  /\ Len(sdPushed) = 2

\* The consumers the running Shutdown has called StopConsuming on, in order.
StoppedInOrder ==
  [i \in 1..(Len(sdSteps) - 2) |-> sdSteps[i + 2].consumer]

\* C11: Shutdown makes its calls in a fixed order: StopAutoPublish first, then
\* the shutdown signal, then StopConsuming on the consumers (only when
\* stopConsumers is set), and ConnectionPool.Shutdown last: it comes after the
\* signal and after a stop was attempted on every registered consumer when
\* that was asked, and the call makes no step after it.
C11_ShutdownStepsInOrder ==
  /\ [](sdPc # "idle" =>
         /\ Len(sdSteps) >= 1
         /\ sdSteps[1].op = "StopAutoPublish"
         /\ ~autoPublishing
         /\ Len(sdSteps) >= 2 => sdSteps[2].op = "signal"
         /\ sdPc = "signal" <=> Len(sdSteps) = 1
         /\ \A i \in 3..Len(sdSteps) :
              sdSteps[i].op = "StopConsuming" /\ sdStopConsumers)
  /\ [][poolShutdowns' # poolShutdowns =>
          /\ poolShutdowns' = poolShutdowns + 1
          /\ Len(sdSteps) >= 2
          /\ sdSteps[1].op = "StopAutoPublish"
          /\ sdSteps[2].op = "signal"
          /\ {StoppedInOrder[i] : i \in 1..Len(StoppedInOrder)} =
               (IF sdStopConsumers THEN consumers ELSE {})
          /\ Len(StoppedInOrder) =
               (IF sdStopConsumers THEN Cardinality(consumers) ELSE 0)
          /\ sdPc' = "idle"]_vars

\* A second Shutdown(true), the pool shut down once already, has sent its
\* signal and stopped both consumers, and is about to shut the pool down.
C11_Witness ==
  /\ poolShutdowns = 1
  /\ sdPc = "stop" /\ sdTodo = {} /\ sdStopConsumers
  /\ consumers = {"c1", "c2"}
  /\ Len(sdSteps) = 4

\* C16: the shutdown flag starts false; only the monitor writes it, in the
\* step that takes the signal, and the monitor terminates in that same step,
\* so the flag is written at most once; once true it stays true, also when
\* Shutdown is called again; the terminated monitor takes no second signal.
C16_ShutdownFlagSetOnceByMonitor ==
  /\ ~shutdown
  /\ [](shutdown <=> monPc = "done")
  /\ [][shutdown => shutdown']_vars
  /\ [][shutdown' # shutdown =>
          /\ monPc = "poll" /\ monPc' = "done"
          /\ shutdownSignal > 0
          /\ shutdownSignal' = shutdownSignal - 1]_vars
  /\ [][monPc = "done" =>
          /\ monPc' = "done"
          /\ shutdownSignal' >= shutdownSignal]_vars

\* Shutdown was called twice and both calls returned: the flag is set, the
\* monitor has terminated and the second signal sits in the channel.
C16_Witness ==
  /\ shutdown
  /\ monPc = "done"
  /\ sdCalls = 2
  /\ sdPc = "idle"
  /\ shutdownSignal = 1

\* C8: no error is dropped.  What a consumer (the Publisher) has reported is,
\* in order, what the application received from the loop, then the one error
\* the loop holds while its push waits, then what still sits in the source.
C8_NoErrorDropped ==
  /\ \A c \in ConsumerNames :
       [k \in 1..consSent[c] |-> ConsumerError(c, k)] =
         SelectSeq(centralErr["consumerLoop"], LAMBDA e : e.from = c)
           \o SelectSeq(ceErr, LAMBDA e : e.from = c)
           \o consErrs[c]
  /\ [k \in 1..pubSent |-> PublisherError(k)] =
       centralErr["publisherLoop"] \o peErr \o pubErrs
  /\ Len(ceErr) <= 1 /\ (cePc = "send" <=> ceErr # <<>>)
  /\ Len(peErr) <= 1 /\ (pePc = "send" <=> peErr # <<>>)

\* The application has received a consumer's error while the publisher-error
\* loop waits on its push.
C8_Witness ==
  /\ Len(centralErr["consumerLoop"]) = 1
  /\ pePc = "send"

(***************************************************************************)
(* The claim about the registry, checked under SpecRegistry.               *)
(***************************************************************************)
\* C14: GetConsumer(name) returns the Consumer registered under that name and
\* no error when the name is registered; otherwise it returns no consumer and
\* a not-found error, never a nil consumer with a nil error.  No step of any
\* operation changes the registry.
C14_GetConsumerExactOrNotFound ==
  /\ [](gcName # NoConsumer =>
         /\ gcName \in consumers =>
              gcRet.consumer = <<[builtFor |-> gcName]>> /\ gcRet.err = <<>>
         /\ gcName \notin consumers =>
              /\ gcRet.consumer = <<>>
              /\ Len(gcRet.err) = 1
              /\ gcRet.err[1].kind = "not found"
              /\ gcRet.err[1].from = gcName
         /\ ~(gcRet.consumer = <<>> /\ gcRet.err = <<>>))
  /\ [][consumers' = consumers]_vars

\* After a Shutdown that stopped the one registered consumer, a name that was
\* configured for no consumer is asked for and is not found.
C14_Witness ==
  /\ consumers = {"c1"}
  /\ poolShutdowns >= 1
  /\ gcName = "c2"
  /\ gcRet.consumer = <<>>
  /\ gcRet.err # <<>>

(***************************************************************************)
(* The claim about the sweep of the registry, checked under FairSpecSweep. *)
(***************************************************************************)
\* Shutdown has not been asked for yet: no signal sent, the flag not set.
BeforeShutdown == shutdownSignal = 0 /\ ~shutdown

\* C17: before shutdown, the central stream being drained, an error that sits
\* in a registered consumer's error source is eventually taken from it by the
\* consumer-error loop (and forwarded), whatever the other consumers do, also
\* when another consumer keeps reporting errors.
C17_NoConsumerStarved ==
  \A c \in ConsumerNames :
    (c \in consumers /\ consErrs[c] # <<>> /\ BeforeShutdown)
      ~> (consErrs[c] = <<>> \/ ~BeforeShutdown)

(***************************************************************************)
(* The claim about termination, checked under FairSpecQuiet.               *)
(***************************************************************************)
\* Shutdown has sent the shutdown signal: it waits in the channel or the
\* monitor has taken it.
SignalSent == shutdownSignal > 0 \/ shutdown

AllStopped ==
  /\ monPc = "done"
  /\ shutdown
  /\ cePc = "done"
  /\ pePc = "done"
  /\ rcPc = "done"

\* The signal slot is free, or the monitor is still there to free it.
SlotFrees == shutdownSignal = 0 \/ monPc = "poll"

\* C18: the central error stream being drained and the signal slot free, every
\* call of Shutdown terminates, the Connection Pool shut down by it (one pool
\* shutdown per returned call); and while a failed stop's error waits for a
\* reader of the central stream, Shutdown stays on that push and the pool is
\* not shut down.
C18_ShutdownTerminatesWhenDrained ==
  /\ \A n \in 1..MaxShutdowns :
       (sdCalls = n /\ sdPc = "signal" /\ SlotFrees)
         ~> (sdPc = "idle" /\ poolShutdowns = n)
  /\ [](poolShutdowns = sdCalls - (IF sdPc = "idle" THEN 0 ELSE 1))
  /\ [][(sdPc = "send" /\ centralErr' = centralErr) =>
          /\ sdPc' = "send"
          /\ sdErr' = sdErr
          /\ poolShutdowns' = poolShutdowns]_vars

\* Two calls of Shutdown have returned, each after a failed stop whose error
\* the application received, and the pool was shut down by both.
C18_Witness ==
  /\ sdPc = "idle"
  /\ sdCalls = 2
  /\ poolShutdowns = 2
  /\ Len(centralErr["Shutdown"]) >= 2

\* C7: once Shutdown has sent the signal, the monitor eventually sets the flag
\* and terminates and each of the three loops eventually stops, for every
\* registry of consumers, the central stream being drained.
C7_SignalStopsEveryLoop == SignalSent ~> AllStopped

====
